---- MODULE Spec2Model ----
(***************************************************************************)
(* Model of tensorqtl/pgen.py: the module-level retrieval functions        *)
(* (read_dosages, read_alleles, read_*_list, read_*_range) and the Pgen    *)
(* session class (constructor, set_samples, read_dosages_list,             *)
(* read_alleles_list, load_dosages_df).                                    *)
(*                                                                         *)
(* Python lists are TLA+ sequences; positions are kept 0-based as in the   *)
(* source, so the element at Python position p of s is At(s, p) = s[p+1].  *)
(* A retrieval call is a short process: enter -> PgenReader open ->        *)
(* np.zeros -> decoder read -> PgenReader exit -> (DataFrame) -> return.   *)
(* pgenlib, numpy and pandas are external; they are modelled by their      *)
(* documented contract (operators Decoder*, Store*, Zeros, ShapeMatches).  *)
(***************************************************************************)
EXTENDS Integers, Sequences, FiniteSets, TLC

\* ---------------------------------------------------------------- bounds
NumSamples == 3
NumVariants == 3
MaxSel == 2
MaxList == 2

\* ------------------------------------------------------- python helpers
At(s, p) == s[p + 1]

PyRange(n) == 0 .. (n - 1)

None == [none |-> TRUE, val |-> <<>>]

Some(v) == [none |-> FALSE, val |-> v]

SeqsUpTo(S, lo, hi) == UNION {[1 .. n -> S] : n \in lo .. hi}

Ascending(s) == \A i, j \in 1 .. Len(s) : i < j => s[i] <= s[j]

StrictlyAscending(s) == \A i, j \in 1 .. Len(s) : i < j => s[i] < s[j]

\* ------------------------------------------------- the store on disk
\* psam: the sample id found at each store position (ids are not positions)
sample_id_list == [p \in 1 .. NumSamples |-> 100 + (NumSamples - p)]

\* an id that no psam row carries
UnknownSampleId == 100 + NumSamples

\* an id that no pvar row carries
UnknownVariantId == 200 + NumVariants

\* pvar 'id' column: ids in store order, all distinct, or the last row
\* repeating the id of the first row
PvarIds(dup) ==
  [p \in 1 .. NumVariants |->
     IF dup /\ p = NumVariants THEN 200 + (NumVariants - 1) ELSE 200 + (NumVariants - p)]

\* the decoded content of the store: one distinct nonzero dosage cell per
\* (variant position, sample position), and two allele codes per cell
StoreDosage(v, s) == v * NumSamples + s + 1

StoreAllele(v, s, h) ==
  IF (v + s) % 3 = 1 THEN -9
  ELSE IF h = 0 THEN s % 2 ELSE (v + s) % 2

\* -------------------------------------------------------- matrices
Matrix(nrows, ncols, cells) == [nrows |-> nrows, ncols |-> ncols, cells |-> cells]

EmptyMatrix == Matrix(0, 0, <<>>)

Zeros(nrows, ncols) == Matrix(nrows, ncols, [k \in 1 .. nrows |-> [j \in 1 .. ncols |-> 0]])

\* python slice row[start::step]
Slice(row, start, step) ==
  LET n == IF Len(row) <= start THEN 0 ELSE (Len(row) - start + step - 1) \div step
  IN  [i \in 1 .. n |-> At(row, start + (i - 1) * step)]

SliceColumns(m, start, step) ==
  LET w == IF m.ncols <= start THEN 0 ELSE (m.ncols - start + step - 1) \div step
  IN  Matrix(m.nrows, w, [k \in 1 .. m.nrows |-> Slice(m.cells[k], start, step)])

\* pandas.DataFrame(data, index, columns) accepts only a matching shape
ShapeMatches(m, index, columns) == m.nrows = Len(index) /\ m.ncols = Len(columns)

\* ---------------------------------------------------- external decoder
get_raw_sample_ct == NumSamples

\* sample position decoded into each output column
DecoderColumns(subset) ==
  IF subset.none THEN [j \in 1 .. NumSamples |-> j - 1] ELSE subset.val

\* pgenlib refuses a subset that is not strictly increasing or out of range
DecoderAcceptsSubset(subset) ==
  \/ subset.none
  \/ /\ StrictlyAscending(subset.val)
     /\ \A j \in 1 .. Len(subset.val) : subset.val[j] \in PyRange(NumSamples)

DecodeDosageRow(v, cols) == [j \in 1 .. Len(cols) |-> StoreDosage(v, cols[j])]

DecodeAlleleRow(v, cols) ==
  [j \in 1 .. 2 * Len(cols) |-> StoreAllele(v, cols[(j + 1) \div 2], (j + 1) % 2)]

IsAlleleFn(f) == f \in {"read_alleles", "read_alleles_list", "read_alleles_range"}

IsRangeFn(f) == f \in {"read_dosages_range", "read_alleles_range"}

IsListFn(f) == f \in {"read_dosages_list", "read_alleles_list"}

DecodeRow(f, v, cols) ==
  IF IsAlleleFn(f) THEN DecodeAlleleRow(v, cols) ELSE DecodeDosageRow(v, cols)

\* ------------------------------------------------------------- state
VARIABLES
  variant_ids,       \* Pgen.variant_ids: the pvar id column as a list
  variant_idx_dict,  \* Pgen.variant_idx_dict: variant id -> store position
  sample_ids,        \* Pgen.sample_ids: the column labels of the selection
  sample_idxs,       \* Pgen.sample_idxs: None, or the positions of the selection
  pc,                \* position of the call: idle, open, alloc, decode, exit, wrap, done
  method,            \* the entry point that was called last
  fn,                \* the module-level read_* function it runs ("none" if none)
  labels,            \* the variant_ids argument of a Pgen list retrieval
  varg,              \* variant_idx / variant_idxs / (start_idx, end_idx) of fn
  sample_subset,     \* the sample_subset argument of fn
  req,               \* the arguments of the last set_samples call
  openCalls,         \* pg.PgenReader constructor calls made by the running call
  acquired,          \* the constructor call of the running call returned a reader
  sessions,          \* decoder sessions currently open
  opened_subset,     \* the sample_subset handed to the pg.PgenReader constructor
  buf,               \* the np.zeros buffer of the running call, as the decoder left it
  decoder_call,      \* the arguments of the decoder read made by the running call
  exc,               \* the exception propagating out of the with block
  result             \* what the last call returned or raised

session == <<variant_ids, variant_idx_dict, sample_ids, sample_idxs>>

frame == <<method, fn, labels, varg, sample_subset, req>>

trace == <<openCalls, acquired, sessions, opened_subset, buf, decoder_call, exc>>

vars == <<variant_ids, variant_idx_dict, sample_ids, sample_idxs, pc, method, fn,
          labels, varg, sample_subset, req, openCalls, acquired, sessions,
          opened_subset, buf, decoder_call, exc, result>>

\* ------------------------------------------------- values of the frame
VArg(idxs, start, stop) == [idxs |-> idxs, start |-> start, stop |-> stop]

NoVArg == VArg(<<>>, 0, 0)

Req(ids, sort) == [ids |-> ids, sort |-> sort]

NoReq == Req(None, TRUE)

Returned(index, columns, data, data2) ==
  [status |-> "ok", index |-> index, columns |-> columns, data |-> data, data2 |-> data2]

Raised(e) ==
  [status |-> e, index |-> <<>>, columns |-> <<>>, data |-> EmptyMatrix, data2 |-> EmptyMatrix]

Pending == Raised("none")

\* ------------------------------------------------ arguments of the calls
VariantIdxArgs == PyRange(NumVariants)

VariantIdxListArgs == SeqsUpTo(VariantIdxArgs, 0, MaxList)

SampleSubsetArgs == {None} \cup {Some(s) : s \in SeqsUpTo(PyRange(NumSamples), 1, MaxSel)}

KnownSampleIds == {sample_id_list[p] : p \in 1 .. NumSamples}

SampleIdListArgs ==
  {None} \cup {Some(s) : s \in SeqsUpTo(KnownSampleIds \cup {UnknownSampleId}, 1, MaxSel)}

SelectSamplesArgs == {None} \cup {Some(s) : s \in SeqsUpTo(KnownSampleIds, 1, MaxSel)}

VariantIdListArgs ==
  SeqsUpTo({variant_ids[p] : p \in 1 .. Len(variant_ids)} \cup {UnknownVariantId}, 0, MaxList)

\* ----------------------------------------------------- Pgen.__init__
\* {i:k for k,i in enumerate(variant_ids)}: a later row overwrites an earlier one
RECURSIVE enumerate_dict(_, _, _)
enumerate_dict(ids, k, d) ==
  IF k = Len(ids) THEN d
  ELSE enumerate_dict(ids, k + 1,
         [i \in (DOMAIN d) \cup {At(ids, k)} |-> IF i = At(ids, k) THEN k ELSE d[i]])

build_variant_idx_dict(ids) == enumerate_dict(ids, 0, [i \in {} |-> 0])

\* ---------------------------------------------------- Pgen.set_samples
\* list.index(i): the first position holding i
list_index(l, i) == CHOOSE p \in PyRange(Len(l)) : At(l, p) = i /\ \A q \in PyRange(p) : At(l, q) # i

NotInList(l, ids) == {k \in 1 .. Len(ids) : \A p \in 1 .. Len(l) : l[p] # ids[k]}

sample_idxs_of(ids) == [k \in 1 .. Len(ids) |-> list_index(sample_id_list, ids[k])]

\* np.argsort: any permutation that sorts (ties in no particular order)
argsort(s) == {sidx \in Permutations(1 .. Len(s)) : Ascending([i \in 1 .. Len(s) |-> s[sidx[i]]])}

reorder_idxs(idxs, sidx) == [i \in 1 .. Len(sidx) |-> idxs[sidx[i]]]

\* variant: the identifiers left in request order while the positions are sorted
reorder_ids_skipped(ids, sidx) == ids

reorder_ids(ids, sidx) == [i \in 1 .. Len(sidx) |-> ids[sidx[i]]]

\* the pair (sample_ids, sample_idxs) that set_samples(ids, sort) stores
set_samples_result(ids, sort, sidx) ==
  IF ids.none THEN <<sample_id_list, None>>
  ELSE IF sort THEN <<reorder_ids(ids.val, sidx), Some(reorder_idxs(sample_idxs_of(ids.val), sidx))>>
  ELSE <<ids.val, Some(sample_idxs_of(ids.val))>>

argsort_choices(ids) == IF ids.none THEN {<<>>} ELSE argsort(sample_idxs_of(ids.val))

\* ------------------------------------------------- read_* (module level)
num_samples_of(subset) == IF subset.none THEN get_raw_sample_ct ELSE Len(subset.val)

read_dosages_range_num_variants(start_idx, end_idx) == end_idx - start_idx + 1

read_alleles_range_num_variants(start_idx, end_idx) == end_idx - start_idx + 1

\* variant: the inclusive end handed to the decoder untranslated
read_dosages_range_end_untranslated(end_idx) == end_idx

read_dosages_range_end(end_idx) == end_idx + 1

read_alleles_range_end(end_idx) == end_idx + 1

\* rows of the np.zeros buffer (a single-variant vector is one row)
buffer_rows(f, a) ==
  CASE f = "read_dosages_range" -> read_dosages_range_num_variants(a.start, a.stop)
    [] f = "read_alleles_range" -> read_alleles_range_num_variants(a.start, a.stop)
    [] IsListFn(f) -> Len(a.idxs)
    [] OTHER -> 1

buffer_cols(f, subset) ==
  IF IsAlleleFn(f) THEN 2 * num_samples_of(subset) ELSE num_samples_of(subset)

\* the arguments of the decoder read: the positions of a single or list read,
\* (start, exclusive end) of a range read
decoder_args(f, a) ==
  CASE f = "read_dosages_range" -> VArg(<<>>, a.start, read_dosages_range_end(a.stop))
    [] f = "read_alleles_range" -> VArg(<<>>, a.start, read_alleles_range_end(a.stop))
    [] OTHER -> VArg(a.idxs, 0, 0)

\* the store positions the decoder writes, one per buffer row from row 0 on
DecoderPositions(f, d) ==
  IF IsRangeFn(f)
  THEN [k \in 1 .. (IF d.stop > d.start THEN d.stop - d.start ELSE 0) |-> d.start + k - 1]
  ELSE d.idxs

DecoderAcceptsRead(f, d, m) ==
  LET ps == DecoderPositions(f, d)
  IN  /\ \A k \in 1 .. Len(ps) : ps[k] \in PyRange(NumVariants)
      /\ IsRangeFn(f) => d.start <= d.stop
      /\ Len(ps) <= m.nrows

DecoderFill(f, d, m, cols) ==
  LET ps == DecoderPositions(f, d)
  IN  Matrix(m.nrows, m.ncols,
        [k \in 1 .. m.nrows |-> IF k <= Len(ps) THEN DecodeRow(f, ps[k], cols) ELSE m.cells[k]])

\* variant: the reader closed on the normal path only
with_exit_on_success(open, e) == IF e = "none" THEN open - 1 ELSE open

\* the with statement leaves the reader closed whatever propagates
with_exit(open, e) == open - 1

\* ------------------------------------------------------ Pgen retrievals
\* variant: the positions handed over in store order instead of request order
variant_idxs_sorted(ids) ==
  IF \E k \in 1 .. Len(ids) : ids[k] \notin DOMAIN variant_idx_dict
  THEN None
  ELSE Some(SortSeq([k \in 1 .. Len(ids) |-> variant_idx_dict[ids[k]]], LAMBDA a, b : a < b))

\* variant: unknown ids dropped instead of raising
variant_idxs_skip_unknown(ids) ==
  LET known == SelectSeq(ids, LAMBDA i : i \in DOMAIN variant_idx_dict)
  IN  Some([k \in 1 .. Len(known) |-> variant_idx_dict[known[k]]])

\* [self.variant_idx_dict[i] for i in variant_ids]: None stands for the
\* KeyError that the first unknown id raises
variant_idxs_of(ids) ==
  IF \E k \in 1 .. Len(ids) : ids[k] \notin DOMAIN variant_idx_dict
  THEN None
  ELSE Some([k \in 1 .. Len(ids) |-> variant_idx_dict[ids[k]]])

\* variant: the first-allele slice starting at the odd position
first_allele_odd(alleles) == SliceColumns(alleles, 1, 2)

\* alleles[:,::2] and alleles[:,1::2]
first_allele(alleles) == SliceColumns(alleles, 0, 2)

second_allele(alleles) == SliceColumns(alleles, 1, 2)

Pgen_read_dosages_list_subset == None

Pgen_read_alleles_list_subset == sample_idxs

Pgen_load_dosages_df_subset == sample_idxs

PgenRetrievals == {"Pgen.read_dosages_list", "Pgen.read_alleles_list", "Pgen.load_dosages_df"}

PgenListRetrievals == {"Pgen.read_dosages_list", "Pgen.read_alleles_list"}

\* ----------------------------------------------------------------- Init
\* the state after Pgen(plink_prefix_path, select_samples)
Init ==
  /\ \E dup \in BOOLEAN :
       /\ variant_ids = PvarIds(dup)
       /\ variant_idx_dict = build_variant_idx_dict(PvarIds(dup))
  /\ \E select_samples \in SelectSamplesArgs :
       \E sidx \in argsort_choices(select_samples) :
         /\ sample_ids = set_samples_result(select_samples, TRUE, sidx)[1]
         /\ sample_idxs = set_samples_result(select_samples, TRUE, sidx)[2]
  /\ req = NoReq
  /\ pc = "idle"
  /\ method = "none"
  /\ fn = "none"
  /\ labels = <<>>
  /\ varg = NoVArg
  /\ sample_subset = None
  /\ openCalls = 0
  /\ acquired = FALSE
  /\ sessions = 0
  /\ opened_subset = None
  /\ buf = None
  /\ decoder_call = None
  /\ exc = "none"
  /\ result = Pending

FreshTrace ==
  /\ openCalls' = 0
  /\ acquired' = FALSE
  /\ opened_subset' = None
  /\ buf' = None
  /\ decoder_call' = None
  /\ exc' = "none"
  /\ UNCHANGED sessions

\* a call of the module-level function f: lines 40-41 and alike convert the
\* subset, then the call stands before its with statement
Enter(m, f, a, subset, lbls) ==
  /\ pc' = "open"
  /\ method' = m
  /\ fn' = f
  /\ varg' = a
  /\ sample_subset' = subset
  /\ labels' = lbls
  /\ req' = NoReq
  /\ result' = Pending
  /\ FreshTrace
  /\ UNCHANGED session

\* a call that raises before it reaches a module-level function
RaiseAtEntry(m, lbls, r, e) ==
  /\ pc' = "done"
  /\ method' = m
  /\ fn' = "none"
  /\ varg' = NoVArg
  /\ sample_subset' = None
  /\ labels' = lbls
  /\ req' = r
  /\ result' = Raised(e)
  /\ FreshTrace
  /\ UNCHANGED session

\* ------------------------------------------------- module-level entries
read_dosages ==
  /\ pc = "idle"
  /\ \E variant_idx \in VariantIdxArgs, subset \in SampleSubsetArgs :
       Enter("read_dosages", "read_dosages", VArg(<<variant_idx>>, 0, 0), subset, <<>>)

read_alleles ==
  /\ pc = "idle"
  /\ \E variant_idx \in VariantIdxArgs, subset \in SampleSubsetArgs :
       Enter("read_alleles", "read_alleles", VArg(<<variant_idx>>, 0, 0), subset, <<>>)

read_dosages_list ==
  /\ pc = "idle"
  /\ \E variant_idxs \in VariantIdxListArgs, subset \in SampleSubsetArgs :
       Enter("read_dosages_list", "read_dosages_list", VArg(variant_idxs, 0, 0), subset, <<>>)

read_alleles_list ==
  /\ pc = "idle"
  /\ \E variant_idxs \in VariantIdxListArgs, subset \in SampleSubsetArgs :
       Enter("read_alleles_list", "read_alleles_list", VArg(variant_idxs, 0, 0), subset, <<>>)

read_dosages_range ==
  /\ pc = "idle"
  /\ \E start_idx \in VariantIdxArgs, end_idx \in VariantIdxArgs, subset \in SampleSubsetArgs :
       Enter("read_dosages_range", "read_dosages_range", VArg(<<>>, start_idx, end_idx), subset, <<>>)

read_alleles_range ==
  /\ pc = "idle"
  /\ \E start_idx \in VariantIdxArgs, end_idx \in VariantIdxArgs, subset \in SampleSubsetArgs :
       Enter("read_alleles_range", "read_alleles_range", VArg(<<>>, start_idx, end_idx), subset, <<>>)

\* ------------------------------------------------- steps of a read_* call
\* pg.PgenReader(path, sample_subset=...) and __enter__
PgenReader_open ==
  /\ pc = "open"
  /\ openCalls' = openCalls + 1
  /\ opened_subset' = sample_subset
  /\ \E io_ok \in BOOLEAN :
       IF io_ok /\ DecoderAcceptsSubset(sample_subset)
       THEN /\ sessions' = sessions + 1
            /\ acquired' = TRUE
            /\ pc' = "alloc"
            /\ UNCHANGED result
       ELSE /\ pc' = "done"
            /\ result' = Raised("DecoderError")
            /\ UNCHANGED <<sessions, acquired>>
  /\ UNCHANGED <<session, frame, buf, decoder_call, exc>>

\* num_samples, num_variants and np.zeros
np_zeros ==
  /\ pc = "alloc"
  /\ LET rows == buffer_rows(fn, varg)
         cols == buffer_cols(fn, sample_subset)
     IN  IF rows < 0
         THEN /\ exc' = "ValueError"
              /\ pc' = "exit"
              /\ UNCHANGED buf
         ELSE \E mem_ok \in BOOLEAN :
                IF mem_ok
                THEN /\ buf' = Some(Zeros(rows, cols))
                     /\ pc' = "decode"
                     /\ UNCHANGED exc
                ELSE /\ exc' = "MemoryError"
                     /\ pc' = "exit"
                     /\ UNCHANGED buf
  /\ UNCHANGED <<session, frame, openCalls, acquired, sessions, opened_subset, decoder_call, result>>

\* r.read_dosages / read_alleles / ..._list / ..._range into the buffer
decoder_read ==
  /\ pc = "decode"
  /\ LET d == decoder_args(fn, varg)
     IN  /\ decoder_call' = Some(d)
         /\ \E io_ok \in BOOLEAN :
              IF io_ok /\ DecoderAcceptsRead(fn, d, buf.val)
              THEN /\ buf' = Some(DecoderFill(fn, d, buf.val, DecoderColumns(opened_subset)))
                   /\ UNCHANGED exc
              ELSE /\ exc' = "DecoderError"
                   /\ UNCHANGED buf
  /\ pc' = "exit"
  /\ UNCHANGED <<session, frame, openCalls, acquired, sessions, opened_subset, result>>

\* leaving the with block: __exit__, then return or re-raise
PgenReader_exit ==
  /\ pc = "exit"
  /\ sessions' = with_exit(sessions, exc)
  /\ IF exc # "none"
     THEN /\ pc' = "done"
          /\ result' = Raised(exc)
     ELSE IF method \in PgenRetrievals
     THEN /\ pc' = "wrap"
          /\ UNCHANGED result
     ELSE /\ pc' = "done"
          /\ result' = Returned(<<>>, <<>>, buf.val, EmptyMatrix)
  /\ UNCHANGED <<session, frame, openCalls, acquired, opened_subset, buf, decoder_call, exc>>

\* ------------------------------------------------------------ Pgen
set_samples ==
  /\ pc = "idle"
  /\ \E ids \in SampleIdListArgs, sort \in BOOLEAN :
       IF ~ids.none /\ NotInList(sample_id_list, ids.val) # {}
       THEN RaiseAtEntry("Pgen.set_samples", <<>>, Req(ids, sort), "ValueError")
       ELSE \E sidx \in argsort_choices(ids) :
              /\ sample_ids' = set_samples_result(ids, sort, sidx)[1]
              /\ sample_idxs' = set_samples_result(ids, sort, sidx)[2]
              /\ pc' = "done"
              /\ method' = "Pgen.set_samples"
              /\ fn' = "none"
              /\ varg' = NoVArg
              /\ sample_subset' = None
              /\ labels' = <<>>
              /\ req' = Req(ids, sort)
              /\ result' = Returned(<<>>, <<>>, EmptyMatrix, EmptyMatrix)
              /\ FreshTrace
              /\ UNCHANGED <<variant_ids, variant_idx_dict>>

Pgen_read_dosages_list ==
  /\ pc = "idle"
  /\ \E ids \in VariantIdListArgs :
       IF variant_idxs_of(ids).none
       THEN RaiseAtEntry("Pgen.read_dosages_list", ids, NoReq, "KeyError")
       ELSE Enter("Pgen.read_dosages_list", "read_dosages_list",
                  VArg(variant_idxs_of(ids).val, 0, 0), Pgen_read_dosages_list_subset, ids)

Pgen_read_alleles_list ==
  /\ pc = "idle"
  /\ \E ids \in VariantIdListArgs :
       IF variant_idxs_of(ids).none
       THEN RaiseAtEntry("Pgen.read_alleles_list", ids, NoReq, "KeyError")
       ELSE Enter("Pgen.read_alleles_list", "read_alleles_list",
                  VArg(variant_idxs_of(ids).val, 0, 0), Pgen_read_alleles_list_subset, ids)

Pgen_load_dosages_df ==
  /\ pc = "idle"
  /\ Enter("Pgen.load_dosages_df", "read_dosages_range",
        VArg(<<>>, 0, Len(variant_ids) - 1), Pgen_load_dosages_df_subset, <<>>)

\* pd.DataFrame(...) around the returned matrix, lines 262, 267-268, 273
DataFrame ==
  /\ pc = "wrap"
  /\ pc' = "done"
  /\ LET index == IF method = "Pgen.load_dosages_df" THEN variant_ids ELSE labels
         data == IF method = "Pgen.read_alleles_list" THEN first_allele(buf.val) ELSE buf.val
         data2 == IF method = "Pgen.read_alleles_list" THEN second_allele(buf.val) ELSE EmptyMatrix
     IN  IF /\ ShapeMatches(data, index, sample_ids)
            /\ method = "Pgen.read_alleles_list" => ShapeMatches(data2, index, sample_ids)
         THEN result' = Returned(index, sample_ids, data, data2)
         ELSE result' = Raised("ValueError")
  /\ UNCHANGED <<session, frame, trace>>

\* the call has returned or raised: the caller owns the result, the frame is gone
return ==
  /\ pc = "done"
  /\ pc' = "idle"
  /\ method' = "none"
  /\ fn' = "none"
  /\ varg' = NoVArg
  /\ sample_subset' = None
  /\ labels' = <<>>
  /\ req' = NoReq
  /\ result' = Pending
  /\ FreshTrace
  /\ UNCHANGED session

Next ==
  \/ read_dosages
  \/ read_alleles
  \/ read_dosages_list
  \/ read_alleles_list
  \/ read_dosages_range
  \/ read_alleles_range
  \/ PgenReader_open
  \/ np_zeros
  \/ decoder_read
  \/ PgenReader_exit
  \/ set_samples
  \/ Pgen_read_dosages_list
  \/ Pgen_read_alleles_list
  \/ Pgen_load_dosages_df
  \/ DataFrame
  \/ return

Spec == Init /\ [][Next]_vars

\* ================================================================ claims
Done == pc = "done"

ReturnedOk == pc = "done" /\ result.status = "ok"

\* the decoder read of the running call has filled the buffer
Decoded == ~decoder_call.none /\ exc = "none"

\* C1: every Pgen retrieval hands the decoder the positions of the active
\* selection (no filter only for the full set) and returns one column per
\* sample of the active selection.
C1_ActiveSelectionReachesDecoder ==
  /\ (method \in PgenRetrievals /\ openCalls > 0) => opened_subset = sample_idxs
  /\ (method \in PgenRetrievals /\ pc = "wrap") => buffer_cols(fn, sample_idxs) = buf.val.ncols

\* C2: after set_samples with an explicit list of known ids, whatever the
\* sort flag, the stored positional-index sequence is ascending.
C2_StoredPositionsAscending ==
  (Done /\ method = "Pgen.set_samples" /\ result.status = "ok" /\ ~req.ids.none)
    => (~sample_idxs.none /\ Ascending(sample_idxs.val))

\* C3: a range retrieval with start_idx <= end_idx calls the decoder with
\* (start_idx, end_idx + 1), its matrix has end_idx - start_idx + 1 rows and
\* row k holds the variant at store position start_idx + k; load_dosages_df
\* covers positions 0 .. N-1 and labels them with the pvar ids.
C3_RangeEndInclusive ==
  (IsRangeFn(fn) /\ varg.start <= varg.stop) =>
    /\ ~decoder_call.none => decoder_call.val = VArg(<<>>, varg.start, varg.stop + 1)
    /\ Decoded =>
         /\ buf.val.nrows = varg.stop - varg.start + 1
         /\ \A k \in PyRange(buf.val.nrows) :
              At(buf.val.cells, k) = DecodeRow(fn, varg.start + k, DecoderColumns(opened_subset))
    /\ (ReturnedOk /\ method = fn) => result.data = buf.val
    /\ method = "Pgen.load_dosages_df" =>
         /\ varg.start = 0
         /\ varg.stop = Len(variant_ids) - 1
         /\ ReturnedOk => (result.index = variant_ids /\ result.data = buf.val)

C3_Witness ==
  /\ ReturnedOk
  /\ method = "read_dosages_range"
  /\ varg.start = 2
  /\ varg.stop = 2
  /\ result.data.nrows = 1
  /\ result.data.cells[1] = DecodeDosageRow(2, DecoderColumns(opened_subset))

\* C4: row k of a Pgen list retrieval is labelled with the k-th requested id
\* and decoded from the store position the identifier index maps that id to.
C4_RowsInRequestOrder ==
  (ReturnedOk /\ method \in PgenListRetrievals) =>
    LET cols == DecoderColumns(opened_subset)
    IN  /\ result.index = labels
        /\ result.data.nrows = Len(labels)
        /\ \A k \in 1 .. Len(labels) :
             IF method = "Pgen.read_dosages_list"
             THEN result.data.cells[k] = DecodeDosageRow(variant_idx_dict[labels[k]], cols)
             ELSE /\ result.data.cells[k]
                       = Slice(DecodeAlleleRow(variant_idx_dict[labels[k]], cols), 0, 2)
                  /\ result.data2.cells[k]
                       = Slice(DecodeAlleleRow(variant_idx_dict[labels[k]], cols), 1, 2)

C4_Witness ==
  /\ ReturnedOk
  /\ method = "Pgen.read_dosages_list"
  /\ Len(labels) = 2
  /\ variant_idx_dict[labels[1]] > variant_idx_dict[labels[2]]
  /\ result.data.cells[1] = DecodeDosageRow(variant_idx_dict[labels[1]], DecoderColumns(opened_subset))

\* C5: a sample subset that is not strictly ascending is rejected before any
\* decoder session is opened and before any decoder call.
C5_BadSubsetRejectedBeforeDecoder ==
  (~sample_subset.none /\ ~StrictlyAscending(sample_subset.val)) =>
    /\ openCalls = 0
    /\ decoder_call.none
    /\ Done => result.status # "ok"

\* C6: a range retrieval with start_idx > end_idx fails with RangeError and
\* returns no matrix (failures of the decoder or of memory set aside).
C6_ReversedRangeRaisesRangeError ==
  (Done /\ IsRangeFn(fn) /\ varg.start > varg.stop
        /\ result.status \notin {"DecoderError", "MemoryError"})
    => result.status = "RangeError"

\* C7: a Pgen list retrieval naming an unknown variant id raises KeyError at
\* once: no decoder session, no buffer, no partial result, session unchanged.
C7_UnknownIdFailsFirst ==
  [][(/\ pc = "idle"
      /\ method' \in PgenListRetrievals
      /\ \E k \in 1 .. Len(labels') : labels'[k] \notin DOMAIN variant_idx_dict)
     => (/\ pc' = "done"
         /\ result' = Raised("KeyError")
         /\ openCalls' = 0
         /\ acquired' = FALSE
         /\ sessions' = 0
         /\ buf' = None
         /\ decoder_call' = None
         /\ UNCHANGED session)]_vars

C7_Witness ==
  /\ Done
  /\ method = "Pgen.read_alleles_list"
  /\ result = Raised("KeyError")
  /\ Len(labels) = 2
  /\ labels[1] \in DOMAIN variant_idx_dict
  /\ labels[2] \notin DOMAIN variant_idx_dict
  /\ ~sample_idxs.none
  /\ openCalls = 0

\* C8: a retrieval call makes exactly one PgenReader open, before anything
\* else; the session it yields is open only inside the with block and is
\* closed on every way out, so none is open between calls.
C8_SessionScopedToCall ==
  /\ sessions \in {0, 1}
  /\ pc \in {"idle", "open", "wrap", "done"} => sessions = 0
  /\ pc = "open" => (openCalls = 0 /\ ~acquired /\ buf.none /\ decoder_call.none)
  /\ pc \in {"alloc", "decode", "exit"} => (sessions = 1 /\ openCalls = 1 /\ acquired)
  /\ (pc \in {"wrap", "done"} /\ fn # "none") => openCalls = 1
  /\ (~buf.none \/ ~decoder_call.none) => acquired

C8_Witness ==
  /\ Done
  /\ acquired
  /\ openCalls = 1
  /\ sessions = 0
  /\ result.status \in {"MemoryError", "DecoderError", "ValueError"}
  /\ fn # "none"

\* C9: Pgen.read_alleles_list splits each raw row of width 2*S into
\* first[n] = raw[2n] and second[n] = raw[2n+1], S columns each; a missing
\* genotype (-9, -9) is -9 in both.
C9_AllelesDeinterleaved ==
  (ReturnedOk /\ method = "Pgen.read_alleles_list") =>
    LET S == Len(sample_ids)
    IN  /\ buf.val.ncols = 2 * S
        /\ result.data.ncols = S
        /\ result.data2.ncols = S
        /\ \A k \in 1 .. buf.val.nrows :
             /\ Len(result.data.cells[k]) = S
             /\ Len(result.data2.cells[k]) = S
             /\ \A n \in PyRange(S) :
                  /\ At(result.data.cells[k], n) = At(buf.val.cells[k], 2 * n)
                  /\ At(result.data2.cells[k], n) = At(buf.val.cells[k], 2 * n + 1)
                  /\ (At(buf.val.cells[k], 2 * n) = -9 /\ At(buf.val.cells[k], 2 * n + 1) = -9)
                       => (At(result.data.cells[k], n) = -9 /\ At(result.data2.cells[k], n) = -9)

C9_Witness ==
  /\ ReturnedOk
  /\ method = "Pgen.read_alleles_list"
  /\ Len(sample_ids) = 2
  /\ \E k \in 1 .. result.data.nrows :
       /\ At(buf.val.cells[k], 0) = -9
       /\ At(result.data.cells[k], 0) = -9
       /\ At(result.data2.cells[k], 0) = -9
       /\ At(result.data.cells[k], 1) # At(result.data2.cells[k], 1)

====
